---- MODULE Spec2Model ----
(***************************************************************************)
(* Model of magnificent7_cash_secured_puts_roi_v31.py: the expiration      *)
(* enumerator get_weekly_fridays (with its st.cache_data memo), the put    *)
(* screener get_put_option_data, the fundamentals enricher                 *)
(* get_fundamentals, and the two screening loops of the script.            *)
(*                                                                         *)
(* Conventions.  Money and ratios are exact decimals held as integers:     *)
(* prices, strikes, bids in mills (1/1000), rounded results in hundredths. *)
(* round(x, 2) is modelled as exact round-half-to-even; the binary         *)
(* representation error of IEEE doubles is not modelled.  A datetime is    *)
(* [day, tod]: days since 1970-01-01 and seconds since midnight.  A date   *)
(* string 'YYYY-MM-DD' is the triple <<y, m, d>>; string order on the      *)
(* zero-padded text is the lexicographic order on the triple.              *)
(*                                                                         *)
(* Specifications.  SpecFridays: direct calls of get_weekly_fridays while  *)
(* the clock advances.  SpecScreener and SpecFund: one direct call of      *)
(* get_put_option_data / get_fundamentals on drawn provider answers.       *)
(* Spec: one button press of a fresh session, the loop run pair by pair.   *)
(***************************************************************************)
EXTENDS Integers, Sequences, FiniteSets, TLC

VARIABLES
    now,      \* the wall clock read by datetime.today()
    fcache,   \* st.cache_data memo of get_weekly_fridays, keyed by n
    fcall,    \* the most recent get_weekly_fridays call
    scall,    \* the most recent get_put_option_data call
    gcall,    \* the most recent get_fundamentals call
    pc,       \* position of the script: "idle", "loop", "done"
    ui,       \* the widget values of the current script run
    pairs,    \* the (ticker, expiration) pairs the loop iterates over
    trace,    \* what each processed pair produced (history of the loop)
    results,  \* the script's results list (sorted once the loop is over)
    outcome   \* what the run showed: "none", "table", "warning", "error"

vars == <<now, fcache, fcall, scall, gcall, pc, ui, pairs, trace, results, outcome>>

(***************************************************************************)
(* Bounds of the model.                                                    *)
(***************************************************************************)
StartDay == 19772      \* first day of the clock window (2024-02-19, a Monday)
MaxDays == 7           \* the clock runs over StartDay .. StartDay + MaxDays
MaxN == 2              \* get_weekly_fridays is called directly with n in -1 .. MaxN
MaxRows == 2           \* rows of a put chain
MaxEps == 5            \* rows of the quarterly earnings table
MaxLive == 2           \* tickers the provider has quotes for during a run
MaxListed == 2         \* weekly expirations the provider lists during a run
MaxChoice == 2         \* options of the expiration selectbox that are selected

(***************************************************************************)
(* Calendar arithmetic of datetime / strftime / pd.to_datetime.            *)
(***************************************************************************)
TimesOfDay == <<0, 34200, 86399>>

SecondsPerDay == 24 * 3600

\* datetime.weekday(): Monday is 0; 1970-01-01 was a Thursday.
Weekday(day) == (day + 3) % 7

\* strftime('%Y-%m-%d'): the civil date of a day number; the time of day is dropped.
Strftime(day) ==
    LET z    == day + 719468
        era  == z \div 146097
        doe  == z - era * 146097
        yoe  == (doe - doe \div 1460 + doe \div 36524 - doe \div 146096) \div 365
        doy  == doe - (365 * yoe + yoe \div 4 - yoe \div 100)
        mp   == (5 * doy + 2) \div 153
        d    == doy - (153 * mp + 2) \div 5 + 1
        m    == IF mp < 10 THEN mp + 3 ELSE mp - 9
        y    == yoe + era * 400 + (IF m <= 2 THEN 1 ELSE 0)
    IN  <<y, m, d>>

\* pd.to_datetime('YYYY-MM-DD'): midnight of that civil date, as a day number.
ToDatetime(date) ==
    LET y0   == date[1] - (IF date[2] <= 2 THEN 1 ELSE 0)
        era  == y0 \div 400
        yoe  == y0 - era * 400
        mp   == IF date[2] > 2 THEN date[2] - 3 ELSE date[2] + 9
        doy  == (153 * mp + 2) \div 5 + date[3] - 1
        doe  == yoe * 365 + yoe \div 4 - yoe \div 100 + doy
    IN  era * 146097 + doe - 719468

\* Order of two date strings.
DateLess(a, b) ==
    \/ a[1] < b[1]
    \/ a[1] = b[1] /\ a[2] < b[2]
    \/ a[1] = b[1] /\ a[2] = b[2] /\ a[3] < b[3]

Clock == [day : StartDay .. StartDay + MaxDays,
          tod : {TimesOfDay[k] : k \in DOMAIN TimesOfDay}]

(***************************************************************************)
(* get_weekly_fridays.                                                     *)
(***************************************************************************)
\* A faulty enumerator: the week index is added without its factor 7.
WeeklyFridaysDaily(today, n) ==
    [k \in 1 .. (IF n > 0 THEN n ELSE 0) |->
        Strftime(today.day + ((4 - Weekday(today.day) + 7 * (k - 1)) % 7) + (k - 1))]

\* The list comprehension of line 12, for today = a datetime and n = a count.
WeeklyFridays(today, n) ==
    [k \in 1 .. (IF n > 0 THEN n ELSE 0) |->
        Strftime(today.day
                 + ((4 - Weekday(today.day) + 7 * (k - 1)) % 7) + 7 * (k - 1))]

\* The arguments the memo is keyed by: direct calls, n=4 and the default n=10.
FridayArgs == (-1 .. MaxN) \cup {4, 10}

NoDates == << >>

EmptyCache == [n \in FridayArgs |-> [set |-> FALSE, val |-> NoDates]]

\* @st.cache_data: the first call with an argument computes and stores, later
\* calls with the same argument return the stored list whatever the date.
get_weekly_fridays(cache, today, n) ==
    IF cache[n].set
    THEN [val |-> cache[n].val, fresh |-> FALSE, cache |-> cache]
    ELSE LET v == WeeklyFridays(today, n)
         IN  [val |-> v, fresh |-> TRUE,
              cache |-> [cache EXCEPT ![n] = [set |-> TRUE, val |-> v]]]

NoFCall == [n |-> 0, at |-> [day |-> 0, tod |-> 0], fresh |-> FALSE,
            val |-> NoDates, made |-> FALSE]

(***************************************************************************)
(* Floating-point values and round(x, 2).                                  *)
(***************************************************************************)
\* A float: finite (v in the unit of its field), NaN, or an infinity (v = sign).
Fin(v) == [k |-> "fin", v |-> v]

NaN == [k |-> "nan", v |-> 0]

Inf(sign) == [k |-> "inf", v |-> sign]

Abs(x) == IF x < 0 THEN -x ELSE x

RECURSIVE Euclid(_, _)
Euclid(a, b) == IF b = 0 THEN a ELSE Euclid(b, a % b)

GCD(a, b) == Euclid(Abs(a), Abs(b))

\* The integer nearest to p / q (q > 0), ties to the even neighbour.
RoundHalfEven(p, q) ==
    LET f == p \div q
        r == p - f * q
    IN  IF 2 * r < q THEN f
        ELSE IF 2 * r > q THEN f + 1
        ELSE IF f % 2 = 0 THEN f ELSE f + 1

\* round(p / q, 2), in hundredths; p / q is reduced first.
Round2(p, q) ==
    LET g == GCD(p, q)
        s == IF q < 0 THEN -1 ELSE 1
    IN  RoundHalfEven(100 * s * (p \div g), s * (q \div g))

\* round(x, 2) of a float held in units of 1/unit: NaN and infinities stay.
RoundFloat2(x, unit) == IF x.k = "fin" THEN Fin(Round2(x.v, unit)) ELSE x

\* a / d for a numpy float64 a = p / q: division by zero gives inf or nan
\* (with a RuntimeWarning), it does not raise.
DivRound2(p, q, d) ==
    IF d = 0
    THEN (IF p = 0 THEN NaN ELSE Inf(IF (p < 0) = (q < 0) THEN 1 ELSE -1))
    ELSE Fin(Round2(p, q * d))

(***************************************************************************)
(* get_put_option_data.                                                    *)
(***************************************************************************)
None == << >>

Some(x) == <<x>>

Raise == [exc |-> TRUE, ret |-> None]

Return(x) == [exc |-> FALSE, ret |-> x]

\* timedelta.days of (pd.to_datetime(target_expiration) - datetime.today()):
\* the floor of the difference in whole days.
days_to_exp(target_expiration, today) ==
    ((ToDatetime(target_expiration) - today.day) * SecondsPerDay - today.tod)
        \div SecondsPerDay

\* A faulty filter: strikes strictly below max_strike only.
StrikeFilterStrict(rows, price, moneyness_pct) ==
    IF price.k # "fin" THEN {}
    ELSE {i \in DOMAIN rows : rows[i].strike * 100 < price.v * (100 - moneyness_pct)}

\* puts[puts['strike'] <= max_strike], as the positions of the kept rows;
\* max_strike = price * (1 - moneyness_pct / 100).  A NaN price keeps no row.
StrikeFilter(rows, price, moneyness_pct) ==
    IF price.k # "fin" THEN {}
    ELSE {i \in DOMAIN rows : rows[i].strike * 100 <= price.v * (100 - moneyness_pct)}

\* puts['bid'].idxmax(): the first position holding the largest bid, NaN bids
\* skipped; 0 when every bid is NaN (the lookup by that label then raises).
BidIdxMax(rows, kept) ==
    LET cand == {i \in kept : rows[i].bid.k = "fin"}
        top  == {i \in cand : \A j \in cand : rows[j].bid.v <= rows[i].bid.v}
    IN  IF cand = {} THEN 0 ELSE CHOOSE i \in top : \A j \in top : i <= j

\* 'Premium': round(bid * 100, 2), bid in mills, the result in hundredths.
Premium(bid) == Round2(bid * 100, 1000)

\* 'Cash Required': round(strike * 100, 2).
CashRequired(strike) == Round2(strike * 100, 1000)

\* A faulty Abs ROI: the ratio, not the percentage.
AbsROIRatio(bid, strike) == Round2(bid, strike)

\* 'Abs ROI (%)': round(bid / strike * 100, 2).
AbsROI(bid, strike) == Round2(bid * 100, strike)

\* 'Annualized ROI (%)': round(bid / strike * 100 * 365 / days_to_exp, 2).
AnnualizedROI(bid, strike, days) == DivRound2(bid * 100 * 365, strike, days)

\* The dict of lines 27-40 for the selected row.  impliedVolatility is held in
\* units of 1/100000, so round(iv * 100, 2) rounds iv / 1000 to hundredths.
PutRecord(ticker, target_expiration, price, best_put, days) ==
    [Ticker        |-> ticker,
     Current_Price |-> RoundFloat2(price, 1000),
     Strike        |-> Round2(best_put.strike, 1000),
     Bid           |-> Round2(best_put.bid.v, 1000),
     Ask           |-> RoundFloat2(best_put.ask, 1000),
     Open_Interest |-> best_put.openInterest.v,
     Premium       |-> Premium(best_put.bid.v),
     Cash_Required |-> CashRequired(best_put.strike),
     Abs_ROI       |-> AbsROI(best_put.bid.v, best_put.strike),
     Annualized_ROI |-> AnnualizedROI(best_put.bid.v, best_put.strike, days),
     Expiration    |-> target_expiration,
     IV            |-> RoundFloat2(best_put.impliedVolatility, 1000)]

\* The try block of lines 16-40: what it returns, or that it raised.
\* prov is what the data provider answers: history, options, option_chain.
put_option_try(ticker, target_expiration, moneyness_pct, today, prov) ==
    IF prov.history.k = "raise" THEN Raise
    ELSE IF prov.options.k = "raise" THEN Raise
    ELSE IF target_expiration \notin prov.options.dates THEN Return(None)
    ELSE IF prov.chain.k = "raise" THEN Raise
    ELSE LET rows == prov.chain.rows
             kept == StrikeFilter(rows, prov.history, moneyness_pct)
             best == BidIdxMax(rows, kept)
         IN  IF kept = {} THEN Return(None)
             ELSE IF best = 0 THEN Raise
             ELSE IF rows[best].openInterest.k # "fin" THEN Raise
             ELSE Return(Some(PutRecord(ticker, target_expiration, prov.history,
                                        rows[best],
                                        days_to_exp(target_expiration, today))))

\* A faulty get_put_option_data: the try block without its except.
get_put_option_data_unguarded(ticker, target_expiration, moneyness_pct, today, prov) ==
    put_option_try(ticker, target_expiration, moneyness_pct, today, prov)

\* The function with its bare except (lines 41-42): a raise becomes None.
get_put_option_data(ticker, target_expiration, moneyness_pct, today, prov) ==
    LET t == put_option_try(ticker, target_expiration, moneyness_pct, today, prov)
    IN  IF t.exc THEN Return(None) ELSE t

(***************************************************************************)
(* The data the provider may answer to one get_put_option_data call.       *)
(***************************************************************************)
\* One put contract: strike and bid in mills, quoted in whole cents.
PutRow(strike, bid, openInterest) ==
    [strike |-> strike, bid |-> bid,
     ask |-> IF bid.k = "fin" THEN Fin(bid.v + 50) ELSE NaN,
     openInterest |-> openInterest,
     impliedVolatility |-> Fin(31257)]

PutRows ==
    {PutRow(185000, Fin(2000), Fin(10)),
     PutRow(195000, Fin(3000), Fin(10)),
     PutRow(180000, Fin(3000), Fin(12)),
     PutRow(180000, Fin(2000), NaN),
     PutRow(185000, NaN, Fin(10)),
     PutRow(180000, Fin(0), Fin(10)),
     PutRow(190000, Fin(2000), Fin(7))}

Chains == UNION {[1 .. len -> PutRows] : len \in 0 .. MaxRows}

\* Offsets, in days from today, of the expirations asked for.
ExpOffsets == {0, 1, 7, 14}

NoChain == [k |-> "ok", rows |-> << >>]

\* What the provider answers, fetch by fetch; a fetch the code never reaches
\* (after a raise, or after the expiration was not listed) is left at its default.
Providers(prices, listed, chains) ==
    {[history |-> [k |-> "raise", v |-> 0], options |-> [k |-> "ok", dates |-> {}],
      chain |-> NoChain]}
    \cup {[history |-> h, options |-> [k |-> "raise", dates |-> {}], chain |-> NoChain] :
            h \in prices}
    \cup {[history |-> h, options |-> [k |-> "ok", dates |-> {}], chain |-> NoChain] :
            h \in prices}
    \cup {[history |-> h, options |-> [k |-> "ok", dates |-> listed],
           chain |-> [k |-> "raise", rows |-> << >>]] : h \in prices}
    \cup {[history |-> h, options |-> [k |-> "ok", dates |-> listed],
           chain |-> [k |-> "ok", rows |-> c]] : h \in prices, c \in chains}

\* The moneyness selectbox of line 87 (a sample of its options).
MoneynessOptions == {5, 10}

ClosePrices == {NaN, Fin(200000), Fin(200004)}

NoProvider == [history |-> [k |-> "raise", v |-> 0], options |-> [k |-> "ok", dates |-> {}],
               chain |-> NoChain]

NoSCall == [st |-> "none", ticker |-> "", target |-> <<0, 0, 0>>, moneyness |-> 0,
            prov |-> NoProvider, out |-> Return(None)]

NoInfo == [recommendationKey |-> [st |-> "absent", v |-> << >>],
           targetMeanPrice |-> [st |-> "absent", v |-> 0],
           currentPrice |-> [st |-> "absent", v |-> 0],
           dividendYield |-> [st |-> "absent", v |-> 0]]

NoEarnings == [k |-> "ok", hasEstimate |-> TRUE, rows |-> << >>]

NoCalendar == [k |-> "ok", has |-> FALSE, day |-> 0]

NoFundProvider == [info |-> [k |-> "raise", d |-> NoInfo], calendar |-> NoCalendar,
                   earnings |-> NoEarnings]

NoGCall == [st |-> "none", prov |-> NoFundProvider,
            out |-> [exc |-> FALSE, ret |-> << >>]]

NoUi == [selected_stock |-> "", custom_tickers |-> << >>, min_price |-> 0,
         max_price |-> 0, moneyness |-> 0]

\* A direct call of get_put_option_data: the arguments and the provider's answers
\* are drawn here, ScreenerCall runs the function on them.
InitScreener ==
    /\ now \in {c \in Clock : c.day = StartDay}
    /\ \E off \in ExpOffsets, m \in MoneynessOptions :
         \E prov \in Providers(ClosePrices,
                               {Strftime(now.day + o) : o \in ExpOffsets}, Chains) :
           scall = [st |-> "pending", ticker |-> "AAPL",
                    target |-> Strftime(now.day + off), moneyness |-> m,
                    prov |-> prov, out |-> Return(None)]
    /\ fcache = EmptyCache /\ fcall = NoFCall /\ gcall = NoGCall
    /\ pc = "idle" /\ ui = NoUi /\ pairs = << >> /\ trace = << >>
    /\ results = << >> /\ outcome = "none"

ScreenerCall ==
    /\ scall.st = "pending"
    /\ scall' = [scall EXCEPT
                   !.st = "done",
                   !.out = get_put_option_data(scall.ticker, scall.target,
                                               scall.moneyness, now, scall.prov)]
    /\ UNCHANGED <<now, fcache, fcall, gcall, pc, ui, pairs, trace, results, outcome>>

SpecScreener == InitScreener /\ [][ScreenerCall]_vars

(***************************************************************************)
(* Claims about get_put_option_data (checked under SpecScreener).          *)
(***************************************************************************)
ScreenerDone == scall.st = "done"

\* The call got a price, found the expiration listed and fetched a chain.
ScreenerReachedChain ==
    /\ ScreenerDone
    /\ scall.prov.history.k # "raise"
    /\ scall.prov.options.k = "ok" /\ scall.target \in scall.prov.options.dates
    /\ scall.prov.chain.k = "ok"

ScreenerRows == scall.prov.chain.rows

ScreenerReturned == ScreenerDone /\ scall.out.ret # None

ScreenerRecord == scall.out.ret[1]

\* Row i has strike <= price * (1 - moneyness / 100).
Qualifies(i) ==
    /\ scall.prov.history.k = "fin"
    /\ ScreenerRows[i].strike * 100 <= scall.prov.history.v * (100 - scall.moneyness)

\* Row i qualifies and its bid is maximal among the qualifying rows, no earlier
\* qualifying row sharing that bid; rows without a bid are not compared.
IsBestRow(i) ==
    /\ Qualifies(i) /\ ScreenerRows[i].bid.k = "fin"
    /\ \A j \in DOMAIN ScreenerRows :
         (Qualifies(j) /\ ScreenerRows[j].bid.k = "fin") =>
            /\ ScreenerRows[j].bid.v <= ScreenerRows[i].bid.v
            /\ (ScreenerRows[j].bid.v = ScreenerRows[i].bid.v => i <= j)

\* The record carries the strike and bid of row i (hundredths against mills).
RecordOfRow(i) ==
    /\ ScreenerRecord.Strike * 10 = ScreenerRows[i].strike
    /\ ScreenerRecord.Bid * 10 = ScreenerRows[i].bid.v

\* C1 as stated: a record is returned if and only if some row qualifies, and it
\* is the earliest qualifying row of maximal bid.
C1_AsStated ==
    ScreenerReachedChain =>
        /\ ScreenerReturned <=> (\E i \in DOMAIN ScreenerRows : Qualifies(i))
        /\ ScreenerReturned => \E i \in DOMAIN ScreenerRows : IsBestRow(i) /\ RecordOfRow(i)

\* C1 amended: a record is returned if and only if some qualifying row has a bid
\* and the earliest qualifying row of maximal bid has an open interest; the
\* record then carries the strike and bid of that row.
C1_BestQualifyingRow ==
    ScreenerReachedChain =>
        /\ ScreenerReturned <=>
             (\E i \in DOMAIN ScreenerRows :
                 IsBestRow(i) /\ ScreenerRows[i].openInterest.k = "fin")
        /\ ScreenerReturned => \E i \in DOMAIN ScreenerRows : IsBestRow(i) /\ RecordOfRow(i)

\* C1 witness: two qualifying rows share the maximal bid, the later one has a
\* different strike, and the record is the earlier one's.
C1_Witness ==
    /\ ScreenerReturned /\ Len(ScreenerRows) = 2
    /\ Qualifies(1) /\ Qualifies(2)
    /\ ScreenerRows[1].bid = ScreenerRows[2].bid
    /\ ScreenerRows[1].strike # ScreenerRows[2].strike
    /\ RecordOfRow(1)

\* C10: in every returned record Premium = bid * 100, Cash Required =
\* strike * 100 and Abs ROI (%) is bid / strike * 100 rounded to the nearest
\* hundredth, for the bid and strike of the selected row; and the spec's
\* example (price 200, moneyness 5, rows {185, 2.0} and {195, 3.0}) gives the
\* strike-185 row with Premium 200.00, Cash Required 18500.00, Abs ROI 1.08.
C10_Example ==
    /\ ScreenerReachedChain
    /\ scall.prov.history = Fin(200000) /\ scall.moneyness = 5
    /\ Len(ScreenerRows) = 2
    /\ ScreenerRows[1].strike = 185000 /\ ScreenerRows[1].bid = Fin(2000)
    /\ ScreenerRows[2].strike = 195000 /\ ScreenerRows[2].bid = Fin(3000)

C10_DerivedFields ==
    /\ ScreenerReturned =>
         \E i \in DOMAIN ScreenerRows :
            /\ IsBestRow(i) /\ RecordOfRow(i)
            /\ ScreenerRecord.Premium = ScreenerRows[i].bid.v * 10
            /\ ScreenerRecord.Cash_Required = ScreenerRows[i].strike * 10
            /\ 2 * Abs(ScreenerRecord.Abs_ROI * ScreenerRows[i].strike
                       - ScreenerRows[i].bid.v * 10000) <= ScreenerRows[i].strike
    /\ C10_Example =>
         /\ ScreenerReturned
         /\ ScreenerRecord.Strike = 18500 /\ ScreenerRecord.Premium = 20000
         /\ ScreenerRecord.Cash_Required = 1850000 /\ ScreenerRecord.Abs_ROI = 108

\* C10 witness: the example's call has returned.
C10_Witness == C10_Example /\ ScreenerReturned

\* The calendar-day difference between the expiration date and today's date.
CalendarDays == ToDatetime(scall.target) - now.day

\* C3 as stated: Annualized ROI (%) is Abs ROI % * 365 / d with d the number of
\* calendar days from today's date to the expiration date, at any time of day
\* (stated here for expirations at least two calendar days ahead, where the
\* divisor the code uses is positive too).
C3_AnnualizedByCalendarDays ==
    (ScreenerReturned /\ CalendarDays >= 2) =>
        ScreenerRecord.Annualized_ROI =
            Fin(Round2(ScreenerRecord.Bid * 10 * 100 * 365,
                       ScreenerRecord.Strike * 10 * CalendarDays))

(***************************************************************************)
(* Text: a string is the sequence of its characters.                       *)
(***************************************************************************)
Lowers == <<"a", "b", "c", "d", "e", "f", "g", "h", "i", "j", "k", "l", "m",
            "n", "o", "p", "q", "r", "s", "t", "u", "v", "w", "x", "y", "z">>

Uppers == <<"A", "B", "C", "D", "E", "F", "G", "H", "I", "J", "K", "L", "M",
            "N", "O", "P", "Q", "R", "S", "T", "U", "V", "W", "X", "Y", "Z">>

Digits == <<"0", "1", "2", "3", "4", "5", "6", "7", "8", "9">>

ToUpper(c) ==
    IF \E i \in DOMAIN Lowers : Lowers[i] = c
    THEN Uppers[CHOOSE i \in DOMAIN Lowers : Lowers[i] = c] ELSE c

ToLower(c) ==
    IF \E i \in DOMAIN Uppers : Uppers[i] = c
    THEN Lowers[CHOOSE i \in DOMAIN Uppers : Uppers[i] = c] ELSE c

\* str.capitalize(): the first character upper-cased, all the others lower-cased.
Capitalize(text) ==
    [i \in DOMAIN text |-> IF i = 1 THEN ToUpper(text[i]) ELSE ToLower(text[i])]

\* The decimal digits of a natural number, at least `width` of them (zero-padded).
RECURSIVE NatText(_, _)
NatText(n, width) ==
    IF n < 10 /\ width <= 1 THEN <<Digits[n + 1]>>
    ELSE Append(NatText(n \div 10, width - 1), Digits[(n % 10) + 1])

\* f"{x:.2f}" of a value in mills.
Format2f(mills) ==
    LET h == Round2(mills, 1000)
    IN  (IF h < 0 THEN <<"-">> ELSE << >>)
        \o NatText(Abs(h) \div 100, 1) \o <<".">> \o NatText(Abs(h) % 100, 2)

\* ', '.join(texts).
RECURSIVE JoinComma(_)
JoinComma(texts) ==
    IF Len(texts) = 0 THEN << >>
    ELSE IF Len(texts) = 1 THEN texts[1]
    ELSE texts[1] \o <<",", " ">> \o JoinComma(Tail(texts))

\* strftime('%Y-%m-%d') as text.
DateText(day) ==
    LET d == Strftime(day)
    IN  NatText(d[1], 4) \o <<"-">> \o NatText(d[2], 2) \o <<"-">> \o NatText(d[3], 2)

\* The literal "N/A" of lines 58-72.
NA == <<"N", "/", "A">>

(***************************************************************************)
(* get_fundamentals.                                                       *)
(***************************************************************************)
\* A key of the info dict: absent, present with None, or present with a value.
Absent(dflt) == [st |-> "absent", v |-> dflt]

Null(dflt) == [st |-> "null", v |-> dflt]

Val(v) == [st |-> "val", v |-> v]

\* Python truthiness of info.get(key): a missing key, None, 0 and '' are falsy.
Truthy(field, zero) == field.st = "val" /\ field.v # zero

\* series.tail(4).tolist()
Tail4(seq) ==
    IF Len(seq) <= 4 THEN seq ELSE SubSeq(seq, Len(seq) - 3, Len(seq))

RECURSIVE Sum(_)
Sum(seq) == IF Len(seq) = 0 THEN 0 ELSE seq[1] + Sum(Tail(seq))

\* Lines 52-55: the score, or that the comparison raised (a number against None).
OverallScore(info) ==
    LET buy   == IF info.recommendationKey.st = "val"
                    /\ info.recommendationKey.v = <<"b", "u", "y">> THEN 1 ELSE 0
        cmp   == Truthy(info.targetMeanPrice, 0)
        above == IF cmp /\ info.currentPrice.st = "val"
                    /\ info.targetMeanPrice.v > info.currentPrice.v THEN 1 ELSE 0
        div   == IF Truthy(info.dividendYield, 0) THEN 1 ELSE 0
    IN  IF cmp /\ info.currentPrice.st # "val" THEN Raise
        ELSE Return(buy + above + div)

\* The except branch's record (lines 66-74).
DefaultFundamentals ==
    [Dividend_Yield |-> 0, Earnings_Date |-> NA, Price_Target |-> 0,
     Recommendation |-> NA, EPS_Last_4 |-> NA, EPS_Beats |-> NA,
     Overall_Score |-> 0]

\* The try block of lines 46-64.  prov is what the provider answers: info,
\* calendar, quarterly_earnings.  dividendYield is held in units of 1/100000,
\* the prices and earnings in mills.
fundamentals_try(prov) ==
    IF prov.info.k = "raise" THEN Raise
    ELSE IF prov.calendar.k = "raise" THEN Raise
    ELSE IF prov.earnings.k = "raise" THEN Raise
    ELSE LET info     == prov.info.d
             eps_data == IF prov.earnings.k = "ok" THEN prov.earnings.rows ELSE << >>
             eps_list == Tail4([i \in DOMAIN eps_data |-> eps_data[i].Earnings])
             beats    == [i \in DOMAIN eps_data |->
                            IF eps_data[i].Earnings >= eps_data[i].Estimate THEN 1 ELSE 0]
             score    == OverallScore(info)
         IN  IF Len(eps_data) > 0 /\ ~prov.earnings.hasEstimate THEN Raise
             ELSE IF score.exc THEN Raise
             ELSE IF info.targetMeanPrice.st = "null" THEN Raise
             ELSE IF info.recommendationKey.st = "null" THEN Raise
             ELSE Return(
               [Dividend_Yield |-> IF Truthy(info.dividendYield, 0)
                                   THEN Round2(info.dividendYield.v, 1000) ELSE 0,
                Earnings_Date  |-> IF prov.calendar.has
                                   THEN DateText(prov.calendar.day) ELSE NA,
                Price_Target   |-> IF info.targetMeanPrice.st = "val"
                                   THEN Round2(info.targetMeanPrice.v, 1000) ELSE 0,
                Recommendation |-> Capitalize(IF info.recommendationKey.st = "val"
                                              THEN info.recommendationKey.v ELSE NA),
                EPS_Last_4     |-> IF Len(eps_list) > 0
                                   THEN JoinComma([i \in DOMAIN eps_list |->
                                                      Format2f(eps_list[i])])
                                   ELSE NA,
                EPS_Beats      |-> IF Len(beats) > 0
                                   THEN NatText(Sum(beats), 1) \o <<"/">>
                                        \o NatText(Len(beats), 1)
                                   ELSE NA,
                Overall_Score  |-> score.ret])

\* The function with its bare except (lines 65-74): a raise becomes the default record.
get_fundamentals(prov) ==
    LET t == fundamentals_try(prov)
    IN  IF t.exc THEN Return(DefaultFundamentals) ELSE t

(***************************************************************************)
(* The data the provider may answer to one get_fundamentals call.          *)
(***************************************************************************)
Infos ==
    [recommendationKey : {Absent(<< >>), Null(<< >>), Val(<<"b", "u", "y">>),
                          Val(<<"h", "o", "l", "d">>)},
     targetMeanPrice   : {Absent(0), Null(0), Val(0), Val(180000), Val(250000)},
     currentPrice      : {Absent(0), Null(0), Val(0), Val(200000)},
     dividendYield     : {Absent(0), Null(0), Val(0), Val(456)}]

\* Quarter by quarter, the reported and the estimated earnings per share.
EpsStream == <<[Earnings |-> 1234, Estimate |-> 1200],
               [Earnings |-> 950, Estimate |-> 1000],
               [Earnings |-> -125, Estimate |-> -125],
               [Earnings |-> 2005, Estimate |-> 1990]>>

EpsRow(i) == EpsStream[((i - 1) % Len(EpsStream)) + 1]

EarningsTables ==
    {[k |-> "raise", hasEstimate |-> TRUE, rows |-> << >>],
     [k |-> "absent", hasEstimate |-> TRUE, rows |-> << >>]}
    \cup {[k |-> "ok", hasEstimate |-> e, rows |-> [i \in 1 .. len |-> EpsRow(i)]] :
            e \in BOOLEAN, len \in 0 .. MaxEps}

Calendars ==
    {[k |-> "raise", has |-> FALSE, day |-> 0], NoCalendar,
     [k |-> "ok", has |-> TRUE, day |-> StartDay + 66]}

\* Fetch by fetch; a fetch the code never reaches is left at its default.
FundProviders(infos, calendars, tables) ==
    {NoFundProvider}
    \cup {[info |-> [k |-> "ok", d |-> i], calendar |-> c, earnings |-> NoEarnings] :
            i \in infos, c \in {x \in calendars : x.k = "raise"}}
    \cup {[info |-> [k |-> "ok", d |-> i], calendar |-> c, earnings |-> e] :
            i \in infos, c \in {x \in calendars : x.k = "ok"}, e \in tables}

\* A direct call of get_fundamentals on drawn provider answers.
InitFund ==
    /\ \E prov \in FundProviders(Infos, Calendars, EarningsTables) :
         gcall = [st |-> "pending", prov |-> prov, out |-> Return(None)]
    /\ now = [day |-> StartDay, tod |-> 0]
    /\ fcache = EmptyCache /\ fcall = NoFCall /\ scall = NoSCall
    /\ pc = "idle" /\ ui = NoUi /\ pairs = << >> /\ trace = << >>
    /\ results = << >> /\ outcome = "none"

FundamentalsCall ==
    /\ gcall.st = "pending"
    /\ gcall' = [gcall EXCEPT !.st = "done", !.out = get_fundamentals(gcall.prov)]
    /\ UNCHANGED <<now, fcache, fcall, scall, pc, ui, pairs, trace, results, outcome>>

SpecFund == InitFund /\ [][FundamentalsCall]_vars

(***************************************************************************)
(* Claims about get_fundamentals (checked under SpecFund).                 *)
(***************************************************************************)
FundDone == gcall.st = "done"

FundInfo == gcall.prov.info.d

\* Every fetch answered, and the info fields are each absent or a number / keyword.
FundWellFormed ==
    /\ gcall.prov.info.k = "ok" /\ gcall.prov.calendar.k = "ok"
    /\ gcall.prov.earnings.k # "raise"
    /\ gcall.prov.earnings.hasEstimate
    /\ FundInfo.recommendationKey.st # "null" /\ FundInfo.targetMeanPrice.st # "null"
    /\ FundInfo.currentPrice.st # "null" /\ FundInfo.dividendYield.st # "null"

\* The number of satisfied conditions among: the keyword is "buy"; the mean
\* price target exceeds the current price; the dividend yield is present and
\* nonzero.
SatisfiedConditions ==
    (IF FundInfo.recommendationKey = Val(<<"b", "u", "y">>) THEN 1 ELSE 0)
    + (IF FundInfo.targetMeanPrice.st = "val" /\ FundInfo.currentPrice.st = "val"
          /\ FundInfo.targetMeanPrice.v > FundInfo.currentPrice.v THEN 1 ELSE 0)
    + (IF FundInfo.dividendYield.st = "val" /\ FundInfo.dividendYield.v # 0
       THEN 1 ELSE 0)

\* C7 as stated: for every info input whose four fields are each present,
\* absent or zero, Overall Score is in 0..3 and is the number of satisfied
\* conditions.
C7_ScoreCountsConditions ==
    (FundDone /\ FundWellFormed) =>
        /\ gcall.out.ret.Overall_Score \in 0 .. 3
        /\ gcall.out.ret.Overall_Score = SatisfiedConditions

\* A fetch raised, or info, calendar and earnings history are all empty.
FundMissingData ==
    \/ gcall.prov.info.k = "raise"
    \/ gcall.prov.calendar.k = "raise"
    \/ gcall.prov.earnings.k = "raise"
    \/ /\ FundInfo = NoInfo
       /\ ~gcall.prov.calendar.has
       /\ Len(gcall.prov.earnings.rows) = 0

\* C8 as stated: get_fundamentals never raises, and on missing data it returns
\* exactly the default record, sentinel strings included.
C8_DefaultOnMissingData ==
    FundDone =>
        /\ ~gcall.out.exc
        /\ (FundMissingData => gcall.out.ret = DefaultFundamentals)

(***************************************************************************)
(* Direct calls of get_weekly_fridays while the clock advances.            *)
(***************************************************************************)
\* Time passes: to the next sampled time of the day, or to the next midnight.
Tick ==
    /\ pc = "idle"
    /\ \/ \E k \in DOMAIN TimesOfDay :
            /\ now.tod = TimesOfDay[k] /\ k < Len(TimesOfDay)
            /\ now' = [now EXCEPT !.tod = TimesOfDay[k + 1]]
       \/ /\ now.tod = TimesOfDay[Len(TimesOfDay)]
          /\ now.day < StartDay + MaxDays
          /\ now' = [day |-> now.day + 1, tod |-> TimesOfDay[1]]
    /\ UNCHANGED <<fcache, fcall, scall, gcall, pc, ui, pairs, trace, results, outcome>>

FridaysCall(n) ==
    /\ pc = "idle"
    /\ LET r == get_weekly_fridays(fcache, now, n)
       IN  /\ fcache' = r.cache
           /\ fcall' = [n |-> n, at |-> now, fresh |-> r.fresh, val |-> r.val,
                        made |-> TRUE]
    /\ UNCHANGED <<now, scall, gcall, pc, ui, pairs, trace, results, outcome>>

InitFridays ==
    /\ now \in Clock
    /\ fcache = EmptyCache /\ fcall = NoFCall /\ scall = NoSCall /\ gcall = NoGCall
    /\ pc = "idle" /\ ui = NoUi /\ pairs = << >> /\ trace = << >>
    /\ results = << >> /\ outcome = "none"

NextFridays == Tick \/ \E n \in -1 .. MaxN : FridaysCall(n)

SpecFridays == InitFridays /\ [][NextFridays]_vars

(***************************************************************************)
(* Claims about get_weekly_fridays (checked under SpecFridays).            *)
(***************************************************************************)
\* C5 as stated: the first date returned for N >= 1 is strictly after today
\* (stated for the calls that compute the list, not for those the memo answers).
C5_FirstFridayAfterToday ==
    (fcall.made /\ fcall.fresh /\ fcall.n >= 1) =>
        DateLess(Strftime(fcall.at.day), fcall.val[1])

\* C6: the call returns N dates for N >= 1 and none for N <= 0; every date is
\* a Friday; consecutive dates increase and are exactly 7 days apart.
C6_WeeklyFridays ==
    fcall.made =>
        /\ Len(fcall.val) = (IF fcall.n >= 1 THEN fcall.n ELSE 0)
        /\ \A k \in DOMAIN fcall.val : Weekday(ToDatetime(fcall.val[k])) = 4
        /\ \A k \in 1 .. Len(fcall.val) - 1 :
              /\ DateLess(fcall.val[k], fcall.val[k + 1])
              /\ ToDatetime(fcall.val[k + 1]) - ToDatetime(fcall.val[k]) = 7

\* C6 witness: a list of at least two dates computed on a day that is not a
\* Friday, and crossing the end of a month.
C6_Witness ==
    /\ fcall.made /\ fcall.fresh /\ Len(fcall.val) >= 2
    /\ Weekday(fcall.at.day) # 4
    /\ fcall.val[1][2] # fcall.val[2][2]

(***************************************************************************)
(* The script: widgets, the two screening loops, the display.              *)
(***************************************************************************)
DEFAULT_MAGNIFICENT_7 == <<"AAPL", "MSFT", "GOOGL", "AMZN", "META", "NVDA", "TSLA">>

\* The tickers of the model in string order, which sorted() follows.
TickerOrder == <<"AAPL", "AMZN", "GOOGL", "META", "MSFT", "NVDA", "SPY", "TSLA">>

Range(seq) == {seq[i] : i \in DOMAIN seq}

\* Lines 81-82: ['ALL'] + sorted(set(DEFAULT_MAGNIFICENT_7 + custom_tickers)),
\* custom_tickers being the stripped, upper-cased, non-empty pieces of the input.
all_tickers(custom_tickers) ==
    LET universe == Range(DEFAULT_MAGNIFICENT_7 \o custom_tickers)
        Member(t) == t \in universe
    IN  <<"ALL">> \o SelectSeq(TickerOrder, Member)

\* Lines 95 and 113: min_price <= option_data['Current Price'] <= max_price,
\* the prices in hundredths; a NaN compares false.
InPriceRange(rec, w) ==
    /\ rec.Current_Price.k = "fin"
    /\ w.min_price <= rec.Current_Price.v
    /\ rec.Current_Price.v <= w.max_price

\* option_data.update(fundamentals): the union of the two dicts.
Merge(option_data, fundamentals) ==
    [f \in DOMAIN option_data \cup DOMAIN fundamentals |->
        IF f \in DOMAIN fundamentals THEN fundamentals[f] ELSE option_data[f]]

Orderings(n) ==
    {p \in [1 .. n -> 1 .. n] : \A i, j \in 1 .. n : p[i] = p[j] => i = j}

\* df.sort_values(by=key, ascending=False): the rows in an order of
\* non-increasing key; the order among equal keys is the sort algorithm's.
SortValuesDescending(rows, key) ==
    {[i \in DOMAIN rows |-> rows[p[i]]] :
        p \in {q \in Orderings(Len(rows)) :
                 \A i \in 1 .. Len(rows) - 1 : rows[q[i]][key] >= rows[q[i + 1]][key]}}

\* A faulty sort: both modes sort by Abs ROI (%).
SortKeyAbsROI(selected_stock) == "Abs_ROI"

\* The column each mode sorts by (lines 101 and 119).
SortKey(selected_stock) == IF selected_stock = "ALL" THEN "Bid" ELSE "Abs_ROI"

\* What the provider has during a run: quotes for the first MaxLive tickers
\* only (for any other ticker the price history is empty and the lookup
\* raises), and only the first MaxListed weekly expirations listed.
LiveTickers == {TickerOrder[i] : i \in 1 .. MaxLive}

ListedExpirations(today) == Range(WeeklyFridays(today, MaxListed))

Quote(price, listed, rows) ==
    [history |-> Fin(price), options |-> [k |-> "ok", dates |-> listed],
     chain |-> [k |-> "ok", rows |-> rows]]

\* The answers for a live ticker: no price, no chain, or a price and a chain.
RunQuotes(listed) ==
    {NoProvider,
     [history |-> Fin(200004), options |-> [k |-> "ok", dates |-> listed],
      chain |-> [k |-> "raise", rows |-> << >>]],
     Quote(200004, listed, <<PutRow(185000, Fin(2000), Fin(10)),
                             PutRow(195000, Fin(3000), Fin(10))>>),
     Quote(200004, listed, <<PutRow(180000, Fin(3000), Fin(12))>>),
     Quote(49996, listed, <<PutRow(45000, Fin(500), Fin(3))>>),
     Quote(40000, listed, <<PutRow(36000, Fin(500), Fin(3))>>)}

RunProviders(ticker, today) ==
    IF ticker \in LiveTickers THEN RunQuotes(ListedExpirations(today)) ELSE {NoProvider}

RunFundProviders ==
    {NoFundProvider,
     [info |-> [k |-> "ok",
                d |-> [recommendationKey |-> Val(<<"b", "u", "y">>),
                       targetMeanPrice |-> Val(250000),
                       currentPrice |-> Val(200000),
                       dividendYield |-> Val(456)]],
      calendar |-> NoCalendar, earnings |-> NoEarnings]}

CustomTickerInputs == {<< >>, <<"SPY", "AAPL">>}

\* The stocks selected in single-ticker runs.
SelectedStocks == {"AAPL", "TSLA"}

\* min_price, max_price in hundredths: the defaults 50.0 and 1000.0.
PriceRanges == {<<5000, 100000>>}

NoFund == [exc |-> FALSE, ret |-> DefaultFundamentals]

\* The runs start on a Thursday or on a Friday, at any sampled time of the day.
RunClock == {c \in Clock : Weekday(c.day) \in {3, 4} /\ c.day < StartDay + 7}

Init ==
    /\ now \in RunClock
    /\ fcache = EmptyCache /\ fcall = NoFCall /\ scall = NoSCall /\ gcall = NoGCall
    /\ pc = "idle" /\ ui = NoUi /\ pairs = << >> /\ trace = << >>
    /\ results = << >> /\ outcome = "none"

\* The widgets of one script run (lines 80-87).
Widgets(selected_stock, custom_tickers, range, moneyness) ==
    [selected_stock |-> selected_stock, custom_tickers |-> custom_tickers,
     min_price |-> range[1], max_price |-> range[2], moneyness |-> moneyness]

\* "Run Screener for ALL" (lines 89-93): the expiration is one of the options of
\* the selectbox fed by get_weekly_fridays(), the loop runs over all_tickers[1:].
RunAll ==
    /\ pc = "idle"
    /\ \E custom \in CustomTickerInputs, range \in PriceRanges,
          m \in MoneynessOptions, choice \in 1 .. MaxChoice :
         LET r == get_weekly_fridays(fcache, now, 10)
             expiration == r.val[choice]
         IN  /\ fcache' = r.cache
             /\ fcall' = [n |-> 10, at |-> now, fresh |-> r.fresh, val |-> r.val,
                          made |-> TRUE]
             /\ ui' = Widgets("ALL", custom, range, m)
             /\ pairs' = [i \in 1 .. Len(all_tickers(custom)) - 1 |->
                            <<all_tickers(custom)[i + 1], expiration>>]
    /\ pc' = "loop" /\ trace' = << >> /\ results' = << >> /\ outcome' = "none"
    /\ UNCHANGED <<now, scall, gcall>>

\* "Run Screener for Selected Stock" (lines 107-111): the loop runs over
\* get_weekly_fridays(n=4).
RunSelected ==
    /\ pc = "idle"
    /\ \E custom \in CustomTickerInputs, range \in PriceRanges, m \in MoneynessOptions :
         \E stock \in SelectedStocks \cap Range(Tail(all_tickers(custom))) :
           LET r == get_weekly_fridays(fcache, now, 4)
           IN  /\ fcache' = r.cache
               /\ fcall' = [n |-> 4, at |-> now, fresh |-> r.fresh, val |-> r.val,
                            made |-> TRUE]
               /\ ui' = Widgets(stock, custom, range, m)
               /\ pairs' = [i \in DOMAIN r.val |-> <<stock, r.val[i]>>]
    /\ pc' = "loop" /\ trace' = << >> /\ results' = << >> /\ outcome' = "none"
    /\ UNCHANGED <<now, scall, gcall>>

\* Lines 99-106 and 117-124: the sorted table, or the warning.
Display(rows, shown, result) ==
    IF Len(rows) > 0
    THEN /\ shown \in SortValuesDescending(rows, SortKey(ui.selected_stock))
         /\ result = "table"
    ELSE /\ shown = rows
         /\ result = "warning"

\* One pass of the loop body (lines 94-98 and 112-116) on the next pair; after
\* the last pair the script goes on to the display.  An exception leaving
\* get_put_option_data or get_fundamentals would end the run as an error.
Step ==
    /\ pc = "loop"
    /\ LET pair == pairs[Len(trace) + 1]
           last == Len(trace) + 1 = Len(pairs)
       IN  \E prov \in RunProviders(pair[1], now), fprov \in RunFundProviders :
             LET option_data == get_put_option_data(pair[1], pair[2], ui.moneyness,
                                                    now, prov)
                 keep == /\ ~option_data.exc
                         /\ option_data.ret # None
                         /\ InPriceRange(option_data.ret[1], ui)
                 fundamentals == IF keep THEN get_fundamentals(fprov) ELSE NoFund
                 failed == option_data.exc \/ fundamentals.exc
                 rows == IF keep /\ ~failed
                         THEN Append(results,
                                     Merge(option_data.ret[1], fundamentals.ret))
                         ELSE results
             IN  /\ keep \/ fprov = NoFundProvider
                 /\ trace' = Append(trace,
                                    [pair |-> pair,
                                     option_data |-> option_data.ret,
                                     called |-> keep,
                                     fundamentals |-> fundamentals.ret])
                 /\ IF failed
                    THEN /\ results' = rows /\ outcome' = "error" /\ pc' = "done"
                    ELSE IF last
                    THEN /\ Display(rows, results', outcome') /\ pc' = "done"
                    ELSE /\ results' = rows /\ outcome' = "none" /\ pc' = "loop"
    /\ UNCHANGED <<now, fcache, fcall, scall, gcall, ui, pairs>>

Next == RunAll \/ RunSelected \/ Step

Spec == Init /\ [][Next]_vars

(***************************************************************************)
(* Claims about the screening runs (checked under Spec).                   *)
(***************************************************************************)
RunDone == pc = "done"

\* The pair processed i-th yielded a record whose Current Price is in range.
Kept(i) ==
    /\ trace[i].option_data # None
    /\ trace[i].option_data[1].Current_Price.k = "fin"
    /\ ui.min_price <= trace[i].option_data[1].Current_Price.v
    /\ trace[i].option_data[1].Current_Price.v <= ui.max_price

\* Row is the record of the pair processed i-th merged with the fundamentals
\* get_fundamentals returned for it.
MergedFrom(row, i) ==
    /\ \A f \in DOMAIN trace[i].option_data[1] : row[f] = trace[i].option_data[1][f]
    /\ \A f \in DOMAIN trace[i].fundamentals : row[f] = trace[i].fundamentals[f]
    /\ row.Ticker = trace[i].pair[1] /\ row.Expiration = trace[i].pair[2]

\* The pairs of the run: the selected ticker with each of the 4 enumerated
\* expirations, or each ticker of the universe once with the chosen expiration.
ReferencePairs ==
    IF ui.selected_stock = "ALL"
    THEN /\ {pairs[i][1] : i \in DOMAIN pairs}
              = Range(DEFAULT_MAGNIFICENT_7) \cup Range(ui.custom_tickers)
         /\ \A i, j \in DOMAIN pairs : pairs[i][1] = pairs[j][1] => i = j
         /\ \E e \in Range(fcall.val) : \A i \in DOMAIN pairs : pairs[i][2] = e
    ELSE /\ fcall.n = 4 /\ Len(pairs) = 4
         /\ \A i \in DOMAIN pairs : pairs[i] = <<ui.selected_stock, fcall.val[i]>>

\* C2: when a run is over, every pair was processed in order, the result set
\* holds exactly the kept pairs' records merged with their fundamentals, and
\* it is ordered descending by Abs ROI (%) (single ticker) or by Bid (ALL).
C2_ResultSetIsReference ==
    RunDone =>
        /\ ReferencePairs
        /\ Len(trace) = Len(pairs)
        /\ \A i \in DOMAIN trace : trace[i].pair = pairs[i]
        /\ LET kept == {i \in DOMAIN trace : Kept(i)}
           IN  /\ Len(results) = Cardinality(kept)
               /\ \E p \in [DOMAIN results -> kept] :
                     /\ \A i, j \in DOMAIN results : p[i] = p[j] => i = j
                     /\ \A i \in DOMAIN results : MergedFrom(results[i], p[i])
        /\ \A i \in 1 .. Len(results) - 1 :
              IF ui.selected_stock = "ALL"
              THEN results[i].Bid >= results[i + 1].Bid
              ELSE results[i].Abs_ROI >= results[i + 1].Abs_ROI

\* C2 witnesses: a finished run whose table puts a later pair's record first,
\* with a pair omitted in between or filtered by price.
C2_Witness ==
    /\ RunDone /\ Len(results) >= 2
    /\ \E i, j \in DOMAIN trace :
          /\ i < j /\ Kept(i) /\ Kept(j)
          /\ MergedFrom(results[1], j) /\ ~MergedFrom(results[1], i)
    /\ \E i \in DOMAIN trace : ~Kept(i)
    /\ results[1].Bid > results[2].Bid /\ results[1].Abs_ROI < results[2].Abs_ROI

\* C9: a run ends with the table over a non-empty result set or with the
\* warning, the warning exactly when no pair yielded an in-range record, and
\* never with an error.
C9_TableOrWarning ==
    /\ outcome # "error"
    /\ ~RunDone => outcome = "none"
    /\ RunDone =>
         /\ outcome \in {"table", "warning"}
         /\ outcome = "table" => Len(results) > 0
         /\ outcome = "warning" <=> (\A i \in DOMAIN trace : ~Kept(i))

\* C9 witness: a run ends with the warning although the provider failed for
\* some pairs and returned an out-of-range record for another.
C9_Witness ==
    /\ RunDone /\ outcome = "warning"
    /\ \E i \in DOMAIN trace : trace[i].option_data # None
    /\ \E i \in DOMAIN trace : trace[i].option_data = None

\* C4 as stated: no record is returned when days_to_expiration is zero or
\* negative, and no record has an infinite, undefined or negative Annualized
\* ROI; in particular for the expirations a run takes from get_weekly_fridays.
C4_NoRecordWhenExpired ==
    /\ ScreenerReturned =>
         /\ days_to_exp(scall.target, now) > 0
         /\ ScreenerRecord.Annualized_ROI.k = "fin"
         /\ ScreenerRecord.Annualized_ROI.v >= 0
    /\ \A i \in DOMAIN trace :
         trace[i].option_data # None =>
            /\ days_to_exp(trace[i].pair[2], now) > 0
            /\ trace[i].option_data[1].Annualized_ROI.k = "fin"
            /\ trace[i].option_data[1].Annualized_ROI.v >= 0

====
